---- MODULE Spec2Model ----
(***************************************************************************)
(* copy-notes: a clipboard-history organizer (src/src/copy-notes.tsx).     *)
(*                                                                         *)
(* State: the Command screen's React state (uncategorized, buckets,        *)
(* isLoading, selectedItems, selectionMode), the pushed BucketItemsView    *)
(* (its own state and the callbacks it captured at openBucket), and the    *)
(* two LocalStorage keys.  A text is a sequence of one-character strings,  *)
(* so that String.prototype.trim is computed rather than assumed.          *)
(*                                                                         *)
(* Each handler is one action that runs to completion, persistence writes  *)
(* included; init is split at the await that separates the clipboard scan  *)
(* from the merge, with the local `fresh` carried between the two steps.   *)
(***************************************************************************)
EXTENDS Integers, Sequences, FiniteSets, TLC

\* ------------------------------------------------------------ constants

BUCKET_COUNT == 5

\* init's loop bound: for (let offset = 0; offset < 10; offset++)
MAX_OFFSET == 10

\* ------------------------------------------------------------ bounds

\* longest clipboard history the environment offers at an activation
MaxClip == 2

\* removeFromBucket prepends without de-duplicating; the uncategorized list
\* is capped at this length in the guard of handleRemove
MaxUncat == 2

\* the user names a new bucket only while fewer than this many are named
MaxNamed == 2

\* longest bucket array LocalStorage may hold at an activation
MaxStored == 7

\* longest clipboard history of SpecScan (init reads at most MAX_OFFSET entries)
MaxScan == 12

\* most handlers the user starts before the oldest has finished
MaxPending == 2

\* ------------------------------------------------------------ values

\* trimmed texts that can be observed on the clipboard
Texts == { <<"a">>, <<"b">>, <<"c">> }

\* raw clipboard texts, before trim: "a" is read with and without a leading
\* blank, and one entry is blank
RawTexts == { <<"a">>, <<" ", "a">>, <<"b">>, <<" ">> }

\* raw values typed into BucketNameForm's text field
RawNames == { <<"w">>, <<"w", " ">>, <<" ">> }

\* raw values typed into BucketNameForm's text field when a bucket is renamed
RenameNames == RawNames \cup { << " ", "x" >> }

EmptyString == << >>

\* what Clipboard.read resolves to: { text }
Entry(raw) == [hasText |-> TRUE, text |-> raw]

\* Clipboard.read resolving with no text (`text?.trim()` is undefined)
NoText == [hasText |-> FALSE, text |-> EmptyString]

ClipEntries == { Entry(raw) : raw \in RawTexts } \cup { NoText }

RECURSIVE SeqsUpTo(_, _)
SeqsUpTo(S, n) ==
  IF n = 0 THEN { << >> }
  ELSE LET shorter == SeqsUpTo(S, n - 1)
       IN  shorter \cup { Append(s, x) : s \in shorter, x \in S }

\* the clipboard histories the environment may hold at an activation;
\* a read at an offset past the end fails
Clipboards == SeqsUpTo(ClipEntries, MaxClip)

\* the clipboard history of SpecOrder: the three texts, each copied once
\* (the handlers treat all texts alike, so one order stands for the six)
ClipboardsOrder == { << Entry(<<"a">>), Entry(<<"b">>), Entry(<<"c">>) >> }

\* a clipboard history of n entries: "a" and " b" in turn, the entries at the
\* positions of `blanks` being blank and those of `textless` having no text
LongClip(n, blanks, textless) ==
  [i \in 1 .. n |->
     IF i \in textless THEN NoText
     ELSE IF i \in blanks THEN Entry(<< " " >>)
     ELSE IF i % 2 = 1 THEN Entry(<< "a" >>)
     ELSE Entry(<< " ", "b" >>)]

\* the clipboard histories of SpecScan: up to MaxScan entries, so that the
\* first failing read is at any offset from 0 to past MAX_OFFSET
ClipboardsLong ==
  { LongClip(n, blanks, textless) :
      n \in 0 .. MaxScan, blanks \in SUBSET { 1, 10 }, textless \in SUBSET { 2, 11 } }

BucketIds == 0 .. (BUCKET_COUNT - 1)

\* ------------------------------------------------------------ helpers

\* Array.prototype.includes
Includes(s, x) == \E i \in DOMAIN s : s[i] = x

\* s.filter((i) => i !== x)
FilterOut(s, x) == SelectSeq(s, LAMBDA i : i # x)

\* s.filter((i) => !xs.includes(i))
FilterOutAll(s, xs) == SelectSeq(s, LAMBDA i : ~Includes(xs, i))

Range(s) == { s[i] : i \in DOMAIN s }

RECURSIVE TrimStart(_)
TrimStart(s) ==
  IF s # << >> /\ Head(s) = " " THEN TrimStart(Tail(s)) ELSE s

RECURSIVE TrimEnd(_)
TrimEnd(s) ==
  IF s # << >> /\ s[Len(s)] = " " THEN TrimEnd(SubSeq(s, 1, Len(s) - 1)) ELSE s

\* String.prototype.trim
Trim(s) == TrimEnd(TrimStart(s))

\* ------------------------------------------------------------ storage

\* LocalStorage.getItem resolves to undefined for a key never set
NoItem == [present |-> FALSE, value |-> << >>]

\* JSON.stringify of an array of strings or of buckets, as LocalStorage keeps it
Stringify(v) == [present |-> TRUE, value |-> v]

\* JSON.parse of a stored item
Parse(item) == item.value

defaultBuckets ==
  [i \in 1 .. BUCKET_COUNT |-> [id |-> i - 1, name |-> EmptyString, items |-> << >>]]

loadHistoryFrom(item) == IF item.present THEN Parse(item) ELSE << >>

\* the padding loop as it would be with every pushed bucket given id 0
RECURSIVE padBucketsIdZero(_)
padBucketsIdZero(parsed) ==
  IF Len(parsed) < BUCKET_COUNT
  THEN padBucketsIdZero(Append(parsed, [id |-> 0, name |-> EmptyString, items |-> << >>]))
  ELSE parsed

RECURSIVE padBuckets(_)
padBuckets(parsed) ==
  IF Len(parsed) < BUCKET_COUNT
  THEN padBuckets(Append(parsed, [id |-> Len(parsed), name |-> EmptyString, items |-> << >>]))
  ELSE parsed

loadBucketsFrom(item) ==
  IF ~item.present THEN defaultBuckets
  ELSE SubSeq(padBuckets(Parse(item)), 1, BUCKET_COUNT)

\* ------------------------------------------------------------ state

VARIABLES
  pc,              \* "start": constructed, init not begun; "merge": init past
                   \* the clipboard scan; "ready": init done
  fresh,           \* init's local: the trimmed clipboard reads
  clipboard,       \* the clipboard history the running init reads from
  reads,           \* the offsets the running init has called Clipboard.read with
  uncategorized,   \* Command state
  buckets,         \* Command state
  isLoading,       \* Command state
  selectedItems,   \* Command state
  selectionMode,   \* Command state
  nav,             \* top of the navigation stack: "main" or "bucket"
  view,            \* BucketItemsView: its bucket prop and its own state
  captured,        \* the `buckets` the view's onRemove/onDelete closed over
  storedHistory,   \* LocalStorage item under HISTORY_KEY
  storedBuckets,   \* LocalStorage item under STORAGE_KEY
  pending,         \* the handlers that are suspended at an await, oldest first
  toast            \* title of the toast the last step issued ("" = none)

vars ==
  << pc, fresh, clipboard, reads, uncategorized, buckets, isLoading, selectedItems, selectionMode,
     nav, view, captured, storedHistory, storedBuckets, pending, toast >>

cmdState == << uncategorized, buckets, isLoading, selectedItems, selectionMode >>
storage == << storedHistory, storedBuckets >>
viewState == << nav, view, captured >>

loadHistory == loadHistoryFrom(storedHistory)
loadBuckets == loadBucketsFrom(storedBuckets)

NoView ==
  [bucket |-> [id |-> 0, name |-> EmptyString, items |-> << >>],
   items |-> << >>, selected |-> << >>, selectionMode |-> FALSE]

Init ==
  /\ pc = "start"
  /\ fresh = << >>
  /\ clipboard = << >>
  /\ reads = << >>
  /\ uncategorized = << >>
  /\ buckets = defaultBuckets
  /\ isLoading = TRUE
  /\ selectedItems = << >>
  /\ selectionMode = FALSE
  /\ nav = "main"
  /\ view = NoView
  /\ captured = defaultBuckets
  /\ storedHistory = NoItem
  /\ storedBuckets = NoItem
  /\ pending = << >>
  /\ toast = ""

\* ------------------------------------------------------------ init

\* the scan loop of init as it would be if an empty entry ended it
RECURSIVE readFreshStopsAtEmpty(_, _, _)
readFreshStopsAtEmpty(clip, offset, acc) ==
  IF offset >= MAX_OFFSET THEN acc
  ELSE IF offset >= Len(clip) THEN acc
  ELSE LET entry == clip[offset + 1]
           trimmed == IF entry.hasText THEN Trim(entry.text) ELSE EmptyString
       IN  IF entry.hasText /\ trimmed # EmptyString
           THEN readFreshStopsAtEmpty(clip, offset + 1, Append(acc, trimmed))
           ELSE acc

\* the scan loop of init: offsets 0, 1, ... until a read throws or MAX_OFFSET
RECURSIVE readFresh(_, _, _)
readFresh(clip, offset, acc) ==
  IF offset >= MAX_OFFSET THEN acc
  ELSE IF offset >= Len(clip) THEN acc
  ELSE LET entry == clip[offset + 1]
           trimmed == IF entry.hasText THEN Trim(entry.text) ELSE EmptyString
       IN  readFresh(clip, offset + 1,
                     IF entry.hasText /\ trimmed # EmptyString
                     THEN Append(acc, trimmed) ELSE acc)

\* the Clipboard.read calls of the scan loop: one per iteration, the one that
\* throws included
RECURSIVE readOffsets(_, _, _)
readOffsets(clip, offset, log) ==
  IF offset >= MAX_OFFSET THEN log
  ELSE IF offset >= Len(clip) THEN Append(log, offset)
  ELSE readOffsets(clip, offset + 1, Append(log, offset))

\* the merge loop of init
RECURSIVE mergeHistory(_, _)
mergeHistory(merged, persisted) ==
  IF persisted = << >> THEN merged
  ELSE mergeHistory(IF ~Includes(merged, Head(persisted))
                    THEN Append(merged, Head(persisted)) ELSE merged,
                    Tail(persisted))

RECURSIVE flatItems(_)
flatItems(bs) == IF bs = << >> THEN << >> ELSE Head(bs).items \o flatItems(Tail(bs))

\* init up to `await loadHistory()`, over the clipboard histories `clips`
initReadFrom(clips) ==
  /\ pc = "start"
  /\ \E clip \in clips :
       /\ clipboard' = clip
       /\ fresh' = readFresh(clip, 0, << >>)
       /\ reads' = readOffsets(clip, 0, << >>)
  /\ pc' = "merge"
  /\ isLoading' = TRUE
  /\ toast' = ""
  /\ UNCHANGED << pending, uncategorized, buckets, selectedItems, selectionMode,
                  viewState, storage >>

\* what init sets `uncategorized` to: the merged list less the bucketed texts
initUncategorized(read, historyItem, bucketsItem) ==
  LET merged == mergeHistory(read, loadHistoryFrom(historyItem))
      bucketed == Range(flatItems(loadBucketsFrom(bucketsItem)))
  IN  SelectSeq(merged, LAMBDA t : t \notin bucketed)

initRead == initReadFrom(Clipboards)

initReadOrder == initReadFrom(ClipboardsOrder)

initReadLong == initReadFrom(ClipboardsLong)

\* init from `await loadHistory()` to its end
initMerge ==
  /\ pc = "merge"
  /\ storedHistory' = Stringify(mergeHistory(fresh, loadHistory))
  /\ uncategorized' = initUncategorized(fresh, storedHistory, storedBuckets)
  /\ buckets' = loadBuckets
  /\ isLoading' = FALSE
  /\ pc' = "ready"
  /\ fresh' = << >>
  /\ clipboard' = << >>
  /\ reads' = << >>
  /\ toast' = ""
  /\ UNCHANGED << pending, selectedItems, selectionMode, viewState, storedBuckets >>

\* the launcher closes the screen: every component unmounts, storage stays,
\* and the next activation constructs Command anew
closeScreen ==
  /\ pc = "ready"
  /\ pc' = "start"
  /\ fresh' = << >>
  /\ clipboard' = << >>
  /\ reads' = << >>
  /\ uncategorized' = << >>
  /\ buckets' = defaultBuckets
  /\ isLoading' = TRUE
  /\ selectedItems' = << >>
  /\ selectionMode' = FALSE
  /\ nav' = "main"
  /\ view' = NoView
  /\ captured' = defaultBuckets
  /\ toast' = ""
  /\ UNCHANGED << pending, storage >>

\* ------------------------------------------------------------ Command

\* the main list shows an item of `uncategorized` and the screen is idle
MainReady == pc = "ready" /\ nav = "main"

Shown(text) == Includes(uncategorized, text)

NamedBuckets(bs) == { i \in DOMAIN bs : bs[i].name # EmptyString }

\* nextEmptyBucket as it would be if the last unnamed slot were taken
nextEmptyBucketLast(bs) ==
  IF \E i \in DOMAIN bs : bs[i].name = EmptyString
  THEN CHOOSE i \in DOMAIN bs :
         /\ bs[i].name = EmptyString
         /\ \A j \in DOMAIN bs : j > i => bs[j].name # EmptyString
  ELSE 0

\* nextEmptyBucket as it would be if slot 0 were taken whatever its name
nextEmptyBucketFirst(bs) == 1

\* buckets.find((b) => !b.name): index of the first unnamed slot, 0 if none
nextEmptyBucket(bs) ==
  IF \E i \in DOMAIN bs : bs[i].name = EmptyString
  THEN CHOOSE i \in DOMAIN bs :
         /\ bs[i].name = EmptyString
         /\ \A j \in DOMAIN bs : j < i => bs[j].name # EmptyString
  ELSE 0

BucketById(bs, bucketId) == CHOOSE i \in DOMAIN bs : bs[i].id = bucketId

toggleSelection(text) ==
  /\ MainReady /\ selectionMode /\ Shown(text)
  /\ selectedItems' = IF Includes(selectedItems, text)
                      THEN FilterOut(selectedItems, text)
                      ELSE Append(selectedItems, text)
  /\ toast' = ""
  /\ UNCHANGED << pc, fresh, clipboard, reads, pending, uncategorized, buckets, isLoading, selectionMode,
                  viewState, storage >>

enterSelectionMode(text) ==
  /\ MainReady /\ ~selectionMode /\ Shown(text)
  /\ selectionMode' = TRUE
  /\ selectedItems' = << text >>
  /\ toast' = ""
  /\ UNCHANGED << pc, fresh, clipboard, reads, pending, uncategorized, buckets, isLoading,
                  viewState, storage >>

exitSelectionMode ==
  /\ MainReady /\ selectionMode /\ uncategorized # << >>
  /\ selectionMode' = FALSE
  /\ selectedItems' = << >>
  /\ toast' = ""
  /\ UNCHANGED << pc, fresh, clipboard, reads, pending, uncategorized, buckets, isLoading,
                  viewState, storage >>

\* Command.pasteSelected: selectionMode is left as it is
pasteSelected ==
  /\ MainReady /\ selectionMode /\ uncategorized # << >>
  /\ selectedItems' = << >>
  /\ toast' = "Pasted items"
  /\ UNCHANGED << pc, fresh, clipboard, reads, pending, uncategorized, buckets, isLoading, selectionMode,
                  viewState, storage >>

\* moveToExistingBucket as it would be with the text pushed instead of prepended
movedIntoAtEnd(bs, text, bucketId) ==
  [i \in DOMAIN bs |->
     IF bs[i].id = bucketId THEN [bs[i] EXCEPT !.items = Append(FilterOut(bs[i].items, text), text)]
     ELSE bs[i]]

\* `updated` of moveToExistingBucket
movedInto(bs, text, bucketId) ==
  [i \in DOMAIN bs |->
     IF bs[i].id = bucketId THEN [bs[i] EXCEPT !.items = << text >> \o FilterOut(bs[i].items, text)]
     ELSE bs[i]]

\* `updated` of moveToNewBucket
movedIntoNew(bs, text, bucketId, name) ==
  [i \in DOMAIN bs |->
     IF bs[i].id = bucketId THEN [bs[i] EXCEPT !.name = name,
                               !.items = << text >> \o FilterOut(bs[i].items, text)]
     ELSE bs[i]]

\* `updated` of moveBulkToExistingBucket
bulkMovedInto(bs, texts, bucketId) ==
  [i \in DOMAIN bs |->
     IF bs[i].id = bucketId THEN [bs[i] EXCEPT !.items = texts \o FilterOutAll(bs[i].items, texts)]
     ELSE bs[i]]

\* `updated` of moveBulkToNewBucket
bulkMovedIntoNew(bs, texts, bucketId, name) ==
  [i \in DOMAIN bs |->
     IF bs[i].id = bucketId THEN [bs[i] EXCEPT !.name = name,
                               !.items = texts \o FilterOutAll(bs[i].items, texts)]
     ELSE bs[i]]

\* removeFromBucket as it would be with the bucket id left unchecked
takenOutOfAll(bs, text, bucketId) ==
  [i \in DOMAIN bs |-> [bs[i] EXCEPT !.items = FilterOut(bs[i].items, text)]]

\* `updated` of removeFromBucket and of deleteEntryFromBucket
takenOut(bs, text, bucketId) ==
  [i \in DOMAIN bs |->
     IF bs[i].id = bucketId THEN [bs[i] EXCEPT !.items = FilterOut(bs[i].items, text)]
     ELSE bs[i]]

\* deleteBucket as it would be with the name left in place
clearedItemsOnly(bs, bucketId) ==
  [i \in DOMAIN bs |->
     IF bs[i].id = bucketId THEN [bs[i] EXCEPT !.items = << >>]
     ELSE bs[i]]

\* `updated` of deleteBucket
cleared(bs, bucketId) ==
  [i \in DOMAIN bs |->
     IF bs[i].id = bucketId THEN [bs[i] EXCEPT !.name = EmptyString, !.items = << >>]
     ELSE bs[i]]

\* renameBucket as it would be with the bucket id left unchecked
renamedAll(bs, bucketId, name) ==
  [i \in DOMAIN bs |-> [bs[i] EXCEPT !.name = name]]

\* `updated` of renameBucket
renamed(bs, bucketId, name) ==
  [i \in DOMAIN bs |->
     IF bs[i].id = bucketId THEN [bs[i] EXCEPT !.name = name]
     ELSE bs[i]]

\* history as moveToExistingBucket, moveToNewBucket, deleteEntry and
\* deleteEntryFromBucket save it
historyWithout(text) == Stringify(FilterOut(loadHistory, text))

\* "Move to Bucket" submenu, offered while nothing is selected
moveToExistingBucket(text, bucketId) ==
  /\ MainReady /\ Shown(text) /\ selectedItems = << >>
  /\ BucketById(buckets, bucketId) \in NamedBuckets(buckets)
  /\ LET updated == movedInto(buckets, text, bucketId)
     IN  /\ buckets' = updated
         /\ storedBuckets' = Stringify(updated)
  /\ uncategorized' = FilterOut(uncategorized, text)
  /\ storedHistory' = historyWithout(text)
  /\ toast' = "Moved to"
  /\ UNCHANGED << pc, fresh, clipboard, reads, pending, isLoading, selectedItems, selectionMode, viewState >>

\* "New Bucket" of getMoveActions, then BucketNameForm's submit with `raw`
moveToNewBucket(text, raw) ==
  /\ MainReady /\ Shown(text) /\ selectedItems = << >>
  /\ nextEmptyBucket(buckets) # 0
  /\ Cardinality(NamedBuckets(buckets)) < MaxNamed
  /\ Trim(raw) # EmptyString
  /\ LET bucketId == buckets[nextEmptyBucket(buckets)].id
         updated == movedIntoNew(buckets, text, bucketId, Trim(raw))
     IN  /\ buckets' = updated
         /\ storedBuckets' = Stringify(updated)
  /\ uncategorized' = FilterOut(uncategorized, text)
  /\ storedHistory' = historyWithout(text)
  /\ toast' = "Created and added item"
  /\ UNCHANGED << pc, fresh, clipboard, reads, pending, isLoading, selectedItems, selectionMode, viewState >>

\* "Move N Selected to Bucket" submenu, offered while something is selected
moveBulkToExistingBucket(bucketId) ==
  /\ MainReady /\ uncategorized # << >> /\ selectedItems # << >>
  /\ BucketById(buckets, bucketId) \in NamedBuckets(buckets)
  /\ LET updated == bulkMovedInto(buckets, selectedItems, bucketId)
     IN  /\ buckets' = updated
         /\ storedBuckets' = Stringify(updated)
  /\ uncategorized' = FilterOutAll(uncategorized, selectedItems)
  /\ selectedItems' = << >>
  /\ toast' = "Moved items to"
  /\ UNCHANGED << pc, fresh, clipboard, reads, pending, isLoading, selectionMode, viewState, storedHistory >>

moveBulkToNewBucket(raw) ==
  /\ MainReady /\ uncategorized # << >> /\ selectedItems # << >>
  /\ nextEmptyBucket(buckets) # 0
  /\ Cardinality(NamedBuckets(buckets)) < MaxNamed
  /\ Trim(raw) # EmptyString
  /\ LET bucketId == buckets[nextEmptyBucket(buckets)].id
         updated == bulkMovedIntoNew(buckets, selectedItems, bucketId, Trim(raw))
     IN  /\ buckets' = updated
         /\ storedBuckets' = Stringify(updated)
  /\ uncategorized' = FilterOutAll(uncategorized, selectedItems)
  /\ selectedItems' = << >>
  /\ toast' = "Moved items to"
  /\ UNCHANGED << pc, fresh, clipboard, reads, pending, isLoading, selectionMode, viewState, storedHistory >>

\* the buckets section lists the buckets that hold items
Listed(bucketId) == buckets[BucketById(buckets, bucketId)].items # << >>

renameBucket(bucketId, raw) ==
  /\ MainReady /\ Listed(bucketId)
  /\ Trim(raw) # EmptyString
  /\ LET updated == renamed(buckets, bucketId, Trim(raw))
     IN  /\ buckets' = updated
         /\ storedBuckets' = Stringify(updated)
  /\ toast' = "Renamed to"
  /\ UNCHANGED << pc, fresh, clipboard, reads, pending, uncategorized, isLoading, selectedItems, selectionMode,
                  viewState, storedHistory >>

\* deleteEntry as it would be without `if (!confirmed) return`
deleteEntryUnasked(text, confirmed) ==
  /\ MainReady /\ Shown(text)
  /\ uncategorized' = FilterOut(uncategorized, text)
  /\ storedHistory' = historyWithout(text)
  /\ toast' = "Entry deleted"
  /\ UNCHANGED << pc, fresh, clipboard, reads, pending, buckets, isLoading, selectedItems, selectionMode,
                  viewState, storedBuckets >>

deleteEntry(text, confirmed) ==
  /\ MainReady /\ Shown(text)
  /\ IF confirmed
     THEN /\ uncategorized' = FilterOut(uncategorized, text)
          /\ storedHistory' = historyWithout(text)
          /\ toast' = "Entry deleted"
     ELSE /\ toast' = ""
          /\ UNCHANGED << uncategorized, storedHistory >>
  /\ UNCHANGED << pc, fresh, clipboard, reads, pending, buckets, isLoading, selectedItems, selectionMode,
                  viewState, storedBuckets >>

deleteBucket(bucketId, confirmed) ==
  /\ MainReady /\ Listed(bucketId)
  /\ IF confirmed
     THEN /\ LET updated == cleared(buckets, bucketId)
             IN  /\ buckets' = updated
                 /\ storedBuckets' = Stringify(updated)
          /\ toast' = "deleted"
     ELSE /\ toast' = ""
          /\ UNCHANGED << buckets, storedBuckets >>
  /\ UNCHANGED << pc, fresh, clipboard, reads, pending, uncategorized, isLoading, selectedItems, selectionMode,
                  viewState, storedHistory >>

\* push(<BucketItemsView bucket onRemove onDelete />): the callbacks close over
\* this render's `buckets`
openBucket(bucketId) ==
  /\ MainReady /\ Listed(bucketId)
  /\ nav' = "bucket"
  /\ LET bucket == buckets[BucketById(buckets, bucketId)]
     IN  view' = [bucket |-> bucket, items |-> bucket.items,
                  selected |-> << >>, selectionMode |-> FALSE]
  /\ captured' = buckets
  /\ toast' = ""
  /\ UNCHANGED << pc, fresh, clipboard, reads, pending, cmdState, storage >>

\* ------------------------------------------------------------ BucketItemsView

InView(text) == pc = "ready" /\ nav = "bucket" /\ Includes(view.items, text)

viewToggleSelection(text) ==
  /\ InView(text) /\ view.selectionMode
  /\ view' = [view EXCEPT !.selected =
                IF Includes(@, text) THEN FilterOut(@, text) ELSE Append(@, text)]
  /\ toast' = ""
  /\ UNCHANGED << pc, fresh, clipboard, reads, pending, cmdState, nav, captured, storage >>

viewEnterSelectionMode(text) ==
  /\ InView(text) /\ ~view.selectionMode
  /\ view' = [view EXCEPT !.selectionMode = TRUE, !.selected = << text >>]
  /\ toast' = ""
  /\ UNCHANGED << pc, fresh, clipboard, reads, pending, cmdState, nav, captured, storage >>

viewExitSelectionMode ==
  /\ pc = "ready" /\ nav = "bucket" /\ view.items # << >> /\ view.selectionMode
  /\ view' = [view EXCEPT !.selectionMode = FALSE, !.selected = << >>]
  /\ toast' = ""
  /\ UNCHANGED << pc, fresh, clipboard, reads, pending, cmdState, nav, captured, storage >>

viewPasteSelected ==
  /\ pc = "ready" /\ nav = "bucket" /\ view.items # << >> /\ view.selectionMode
  /\ view' = [view EXCEPT !.selectionMode = FALSE, !.selected = << >>]
  /\ toast' = "Pasted items"
  /\ UNCHANGED << pc, fresh, clipboard, reads, pending, cmdState, nav, captured, storage >>

\* handleRemove, then onRemove = removeFromBucket(text, bucket.id) of the
\* render that pushed the view
handleRemove(text) ==
  /\ InView(text)
  /\ Len(uncategorized) < MaxUncat
  /\ view' = [view EXCEPT !.items = FilterOut(@, text),
                          !.selected = FilterOut(@, text)]
  /\ LET updated == takenOut(captured, text, view.bucket.id)
     IN  /\ buckets' = updated
         /\ storedBuckets' = Stringify(updated)
  /\ uncategorized' = << text >> \o uncategorized
  /\ toast' = "Moved back to Recent"
  /\ UNCHANGED << pc, fresh, clipboard, reads, pending, isLoading, selectedItems, selectionMode, nav, captured,
                  storedHistory >>

\* handleDelete, then onDelete = deleteEntryFromBucket(text, bucket.id) of the
\* render that pushed the view
handleDelete(text) ==
  /\ InView(text)
  /\ view' = [view EXCEPT !.items = FilterOut(@, text),
                          !.selected = FilterOut(@, text)]
  /\ LET updated == takenOut(captured, text, view.bucket.id)
     IN  /\ buckets' = updated
         /\ storedBuckets' = Stringify(updated)
  /\ storedHistory' = historyWithout(text)
  /\ toast' = "Entry deleted"
  /\ UNCHANGED << pc, fresh, clipboard, reads, pending, uncategorized, isLoading, selectedItems, selectionMode,
                  nav, captured >>

\* the user leaves the bucket view (pop): the view unmounts
popView ==
  /\ pc = "ready" /\ nav = "bucket"
  /\ nav' = "main"
  /\ view' = NoView
  /\ captured' = defaultBuckets
  /\ toast' = ""
  /\ UNCHANGED << pc, fresh, clipboard, reads, pending, cmdState, storage >>

\* ------------------------------------------------------------ handlers in flight

\* moveToExistingBucket is async: Raycast calls it and does not wait for it, so
\* the list accepts the next action while the handler is suspended at an await.
\* The four steps below are the handler cut at its awaits; run back to back
\* they are the action moveToExistingBucket.

RemoveAt(s, k) == SubSeq(s, 1, k - 1) \o SubSeq(s, k + 1, Len(s))

\* up to `await loadHistory()`: both setState calls, then the read is awaited
moveToExistingBucketStart(text, bucketId) ==
  /\ MainReady /\ Shown(text) /\ selectedItems = << >>
  /\ BucketById(buckets, bucketId) \in NamedBuckets(buckets)
  /\ Len(pending) < MaxPending
  /\ LET updated == movedInto(buckets, text, bucketId)
     IN  /\ buckets' = updated
         /\ pending' = Append(pending, [text |-> text, updated |-> updated,
                                        at |-> "loadHistory", persisted |-> << >>])
  /\ uncategorized' = FilterOut(uncategorized, text)
  /\ toast' = ""
  /\ UNCHANGED << pc, fresh, clipboard, reads, isLoading, selectedItems, selectionMode, viewState, storage >>

\* `await loadHistory()` resolves in handler k; saveHistory is awaited next
moveToExistingBucketLoaded(k) ==
  /\ k \in DOMAIN pending /\ pending[k].at = "loadHistory"
  /\ pending' = [pending EXCEPT ![k].persisted = loadHistory, ![k].at = "saveHistory"]
  /\ toast' = ""
  /\ UNCHANGED << pc, fresh, clipboard, reads, cmdState, viewState, storage >>

\* `await saveHistory(persisted.filter(...))` resolves in handler k
moveToExistingBucketSavedHistory(k) ==
  /\ k \in DOMAIN pending /\ pending[k].at = "saveHistory"
  /\ storedHistory' = Stringify(FilterOut(pending[k].persisted, pending[k].text))
  /\ pending' = [pending EXCEPT ![k].at = "saveBuckets"]
  /\ toast' = ""
  /\ UNCHANGED << pc, fresh, clipboard, reads, cmdState, viewState, storedBuckets >>

\* `await saveBuckets(updated)` resolves in handler k, then the toast
moveToExistingBucketSavedBuckets(k) ==
  /\ k \in DOMAIN pending /\ pending[k].at = "saveBuckets"
  /\ storedBuckets' = Stringify(pending[k].updated)
  /\ pending' = RemoveAt(pending, k)
  /\ toast' = "Moved to"
  /\ UNCHANGED << pc, fresh, clipboard, reads, cmdState, viewState, storedHistory >>

\* ------------------------------------------------------------ behaviour

\* Every handler of Command, and the bucket view's remove, delete and pop.
\* The bucket view's selection never flows into Command's state or into
\* storage; SpecView explores it.
Next ==
  \/ initRead
  \/ initMerge
  \/ closeScreen
  \/ \E text \in Texts : toggleSelection(text)
  \/ \E text \in Texts : enterSelectionMode(text)
  \/ exitSelectionMode
  \/ pasteSelected
  \/ \E text \in Texts, bucketId \in BucketIds : moveToExistingBucket(text, bucketId)
  \/ \E text \in Texts, raw \in RawNames : moveToNewBucket(text, raw)
  \/ \E bucketId \in BucketIds : moveBulkToExistingBucket(bucketId)
  \/ \E raw \in RawNames : moveBulkToNewBucket(raw)
  \/ \E bucketId \in BucketIds, raw \in RawNames : renameBucket(bucketId, raw)
  \/ \E text \in Texts, confirmed \in BOOLEAN : deleteEntry(text, confirmed)
  \/ \E bucketId \in BucketIds, confirmed \in BOOLEAN : deleteBucket(bucketId, confirmed)
  \/ \E bucketId \in BucketIds : openBucket(bucketId)
  \/ \E text \in Texts : handleRemove(text)
  \/ \E text \in Texts : handleDelete(text)
  \/ popView

Spec == Init /\ [][Next]_vars

\* One activation that reads three distinct texts, then the handlers that file
\* single items into buckets and take them out again.
NextOrder ==
  \/ initReadOrder
  \/ initMerge
  \/ \E text \in Texts, bucketId \in BucketIds : moveToExistingBucket(text, bucketId)
  \/ \E text \in Texts, raw \in RawNames : moveToNewBucket(text, raw)
  \/ \E bucketId \in BucketIds, confirmed \in BOOLEAN : deleteBucket(bucketId, confirmed)
  \/ \E bucketId \in BucketIds : openBucket(bucketId)
  \/ \E text \in Texts : handleRemove(text)
  \/ popView

SpecOrder == Init /\ [][NextOrder]_vars

\* One activation, single moves, and the whole of the bucket view.
NextView ==
  \/ initRead
  \/ initMerge
  \/ \E text \in Texts, bucketId \in BucketIds : moveToExistingBucket(text, bucketId)
  \/ \E text \in Texts, raw \in RawNames : moveToNewBucket(text, raw)
  \/ \E bucketId \in BucketIds : openBucket(bucketId)
  \/ \E text \in Texts : viewToggleSelection(text)
  \/ \E text \in Texts : viewEnterSelectionMode(text)
  \/ viewExitSelectionMode
  \/ viewPasteSelected
  \/ \E text \in Texts : handleRemove(text)
  \/ \E text \in Texts : handleDelete(text)
  \/ popView

SpecView == Init /\ [][NextView]_vars

\* One activation, single moves, and the two handlers that ask for
\* confirmation: every step but init's and a declined delete issues a toast.
NextDelete ==
  \/ initReadOrder
  \/ initMerge
  \/ \E text \in Texts, bucketId \in BucketIds : moveToExistingBucket(text, bucketId)
  \/ \E text \in Texts, raw \in RawNames : moveToNewBucket(text, raw)
  \/ \E text \in Texts, confirmed \in BOOLEAN : deleteEntry(text, confirmed)
  \/ \E bucketId \in BucketIds, confirmed \in BOOLEAN : deleteBucket(bucketId, confirmed)

SpecDelete == Init /\ [][NextDelete]_vars

\* One activation, then single moves whose awaits are steps of their own; the
\* new-bucket move is taken whole, and only while no handler is in flight.
NextAsync ==
  \/ initReadOrder
  \/ initMerge
  \/ \E text \in Texts, raw \in RawNames : pending = << >> /\ moveToNewBucket(text, raw)
  \/ \E text \in Texts, bucketId \in BucketIds : moveToExistingBucketStart(text, bucketId)
  \/ \E k \in 1 .. MaxPending : moveToExistingBucketLoaded(k)
  \/ \E k \in 1 .. MaxPending : moveToExistingBucketSavedHistory(k)
  \/ \E k \in 1 .. MaxPending : moveToExistingBucketSavedBuckets(k)

SpecAsync == Init /\ [][NextAsync]_vars

\* Activations that read three distinct texts, selection, bulk moves to a new
\* bucket, and Delete Bucket, which frees a slot below a named one.
NextBulk ==
  \/ initReadOrder
  \/ initMerge
  \/ closeScreen
  \/ \E text \in Texts : toggleSelection(text)
  \/ \E text \in Texts : enterSelectionMode(text)
  \/ exitSelectionMode
  \/ \E raw \in RawNames : moveBulkToNewBucket(raw)
  \/ \E bucketId \in BucketIds, confirmed \in BOOLEAN : deleteBucket(bucketId, confirmed)

SpecBulk == Init /\ [][NextBulk]_vars

\* Activations over long clipboard histories.  init is started by useEffect
\* when Command mounts and runs on as each awaited promise resolves, so both
\* of its steps are taken once they are enabled.
NextScan ==
  \/ initReadLong
  \/ initMerge
  \/ closeScreen

SpecScan ==
  Init /\ [][NextScan]_vars /\ WF_vars(initReadLong) /\ WF_vars(initMerge)

\* The first run's activation, then single moves, Rename Bucket, Delete Bucket
\* and the bucket view's remove and delete: every handler that writes a
\* slot's name or items one text at a time.
NextNames ==
  \/ initRead
  \/ initMerge
  \/ \E text \in Texts, bucketId \in BucketIds : moveToExistingBucket(text, bucketId)
  \/ \E text \in Texts, raw \in RawNames : moveToNewBucket(text, raw)
  \/ \E bucketId \in BucketIds, raw \in RenameNames : renameBucket(bucketId, raw)
  \/ \E bucketId \in BucketIds, confirmed \in BOOLEAN : deleteBucket(bucketId, confirmed)
  \/ \E bucketId \in BucketIds : openBucket(bucketId)
  \/ \E text \in Texts : handleRemove(text)
  \/ \E text \in Texts : handleDelete(text)
  \/ popView

SpecNames == Init /\ [][NextNames]_vars

\* a bucket array of length n as saveBuckets writes one: slot i has id i, and
\* the slots of `filled` are named and hold an item
StoredArray(n, filled) ==
  [i \in 1 .. n |->
     IF i \in filled
     THEN [id |-> i - 1, name |-> << "w" >>, items |-> << << "a" >> >>]
     ELSE [id |-> i - 1, name |-> EmptyString, items |-> << >>]]

\* what LocalStorage may hold under STORAGE_KEY when the screen is activated:
\* nothing, or an array written while BUCKET_COUNT was smaller, equal or larger
StoredBucketItems ==
  { NoItem } \cup
  UNION { { Stringify(StoredArray(n, filled)) : filled \in SUBSET (1 .. n) } :
          n \in 0 .. MaxStored }

\* the state after construction, over every stored bucket array
InitLoad ==
  /\ pc = "start"
  /\ fresh = << >>
  /\ clipboard = << >>
  /\ reads = << >>
  /\ uncategorized = << >>
  /\ buckets = defaultBuckets
  /\ isLoading = TRUE
  /\ selectedItems = << >>
  /\ selectionMode = FALSE
  /\ nav = "main"
  /\ view = NoView
  /\ captured = defaultBuckets
  /\ storedHistory = NoItem
  /\ storedBuckets \in StoredBucketItems
  /\ pending = << >>
  /\ toast = ""

\* Activations over every stored bucket array.
NextLoad ==
  \/ initRead
  \/ initMerge
  \/ closeScreen

SpecLoad == InitLoad /\ [][NextLoad]_vars
\* ------------------------------------------------------------ properties

Count(s, x) == Cardinality({ i \in DOMAIN s : s[i] = x })

NoDuplicates(s) == \A i, j \in DOMAIN s : s[i] = s[j] => i = j

Bucketed(bs) == Range(flatItems(bs))

\* C1: once activation is done, whatever the user has done since, a text is in
\* the items of at most one bucket, and at most once in that bucket.
C1_AtMostOneBucket ==
  pc = "ready" => \A t \in Texts : Count(flatItems(buckets), t) <= 1

\* C2: once activation is done, no text is both in the in-memory uncategorized
\* list and in the items of an in-memory bucket.
C2_UncategorizedNotBucketed ==
  pc = "ready" => Range(uncategorized) \cap Bucketed(buckets) = {}

\* C3: after every completed operation the persisted history list holds no
\* value that is in the items of a persisted bucket.
C3_PersistedHistoryPruned ==
  pc = "ready" => Range(loadHistory) \cap Bucketed(loadBuckets) = {}

\* the first occurrences of s, in order
RECURSIVE Distinct(_)
Distinct(s) ==
  IF s = << >> THEN << >>
  ELSE << Head(s) >> \o Distinct(FilterOut(Tail(s), Head(s)))

\* merged holds the fresh reads first, in read order, then the persisted-only
\* entries in persisted order, and no value twice
MergedAsClaimed(read, persisted, merged) ==
  /\ SelectSeq(merged, LAMBDA t : Includes(read, t)) = Distinct(read)
  /\ SelectSeq(merged, LAMBDA t : ~Includes(read, t))
       = Distinct(SelectSeq(persisted, LAMBDA t : ~Includes(read, t)))
  /\ \A i, j \in DOMAIN merged :
       Includes(read, merged[i]) /\ ~Includes(read, merged[j]) => i < j
  /\ NoDuplicates(merged)

\* C4: the list activation persists places every fresh clipboard entry, in read
\* order, before every persisted-only entry (persisted order kept), and holds
\* no value twice, whatever the clipboard reads and the persisted list are.
C4_MergeFreshFirstNoDuplicates ==
  [][initMerge =>
       MergedAsClaimed(fresh, loadHistory, loadHistoryFrom(storedHistory'))]_vars

BulkMove ==
  \/ \E bucketId \in BucketIds : moveBulkToExistingBucket(bucketId)
  \/ \E raw \in RawNames : moveBulkToNewBucket(raw)

\* C5: a bulk move of the selection leaves every selected text absent from the
\* in-memory uncategorized list and from the persisted history list, as single
\* moves of each text would, and leaves the selection empty.
C5_BulkMoveAsSingleMoves ==
  [][BulkMove =>
       /\ Range(selectedItems) \cap Range(uncategorized') = {}
       /\ Range(selectedItems) \cap Range(loadHistoryFrom(storedHistory')) = {}
       /\ selectedItems' = << >>]_vars
\* the bucket that moveToExistingBucket(text, bucketId) targets holds text once,
\* first, followed by its other items in their old order; nothing else moved
MovedAsClaimed(text, bucketId) ==
  LET i == BucketById(buckets, bucketId)
  IN  /\ Len(buckets') = Len(buckets)
      /\ buckets'[i].items # << >>
      /\ Head(buckets'[i].items) = text
      /\ Count(buckets'[i].items, text) = 1
      /\ FilterOut(buckets'[i].items, text) = FilterOut(buckets[i].items, text)
      /\ \A j \in DOMAIN buckets : j # i => buckets'[j] = buckets[j]
      /\ ~Includes(uncategorized', text)
      /\ ~Includes(loadHistoryFrom(storedHistory'), text)
      /\ storedBuckets'.present
      /\ loadBucketsFrom(storedBuckets') = buckets'

\* C6: after moveToExistingBucket(text, b), text is the first item of b and is
\* there once, b's other items keep their relative order, every other bucket
\* is unchanged, text is in neither the uncategorized list nor the persisted
\* history, and the persisted buckets equal the in-memory buckets.
C6_MoveToExistingBucket ==
  [][toast' = "Moved to" =>
       \A text \in Range(uncategorized), bucketId \in BucketIds :
         moveToExistingBucket(text, bucketId) => MovedAsClaimed(text, bucketId)]_vars

\* a single move has just put a text in front of two others
C6_Witness ==
  /\ toast = "Moved to"
  /\ \E i \in DOMAIN buckets :
       /\ Len(buckets[i].items) = 3
       /\ ~Includes(uncategorized, Head(buckets[i].items))
       /\ \E j \in DOMAIN buckets : j # i /\ buckets[j].items # << >>

\* C7: after Remove from Bucket(text, b), text is not in b's items, is the
\* first element of the uncategorized list, and is still held somewhere in
\* persisted state.
C7_RemoveIsDemotion ==
  toast = "Moved back to Recent" =>
    /\ uncategorized # << >>
    /\ ~Includes(buckets[BucketById(buckets, view.bucket.id)].items, Head(uncategorized))
    /\ \/ Includes(loadHistory, Head(uncategorized))
       \/ Head(uncategorized) \in Bucketed(loadBuckets)

\* C8: for the buckets of any reachable state, moving text into bucket b (what
\* moveToExistingBucket stores) and then removing it from b (what
\* removeFromBucket stores, given the buckets the move left) leaves b's items
\* equal to its items before the move less text, in the same order, and leaves
\* every other bucket as it was.
C8_MoveThenRemove ==
  MainReady =>
    \A text \in Texts, bucketId \in BucketIds :
      LET i == BucketById(buckets, bucketId)
          after == takenOut(movedInto(buckets, text, bucketId), text, bucketId)
      IN  /\ Len(after) = Len(buckets)
          /\ after[i].items = FilterOut(buckets[i].items, text)
          /\ after[i].id = buckets[i].id /\ after[i].name = buckets[i].name
          /\ \A j \in DOMAIN buckets : j # i => after[j] = buckets[j]

\* the view was opened on a bucket of three items and its first item has just
\* been removed, leaving the other two in order, next to another filled bucket
C8_Witness ==
  /\ toast = "Moved back to Recent"
  /\ LET i == BucketById(captured, view.bucket.id)
     IN  /\ Len(captured[i].items) = 3
         /\ Head(captured[i].items) = Head(uncategorized)
         /\ buckets[i].items = Tail(captured[i].items)
         /\ \E j \in DOMAIN buckets : j # i /\ buckets[j].items # << >>

\* slot i of bs' is cleared, keeps its id, and nothing else of bs changed
ClearedAsClaimed(bucketId) ==
  LET i == BucketById(buckets, bucketId)
  IN  /\ Len(buckets') = BUCKET_COUNT
      /\ \A k \in 1 .. BUCKET_COUNT : buckets'[k].id = k - 1
      /\ buckets'[i] = [id |-> bucketId, name |-> EmptyString, items |-> << >>]
      /\ \A j \in DOMAIN buckets : j # i => buckets'[j] = buckets[j]
      /\ storedBuckets'.present
      /\ Parse(storedBuckets') = buckets'

\* C9: a confirmed Delete Bucket(b) keeps slot b's id, empties its name and its
\* items, leaves every other slot unchanged, and leaves 5 slots, slot i with
\* id i, in memory and in persisted storage.
C9_DeleteBucketClearsSlot ==
  [][toast' = "deleted" =>
       \A bucketId \in BucketIds :
         deleteBucket(bucketId, TRUE) => ClearedAsClaimed(bucketId)]_vars

\* a bucket has just been deleted while another bucket holds items
C9_Witness ==
  /\ toast = "deleted"
  /\ \E i, j \in DOMAIN buckets :
       /\ i < j
       /\ buckets[i].name = EmptyString /\ buckets[i].items = << >>
       /\ buckets[j].name # EmptyString /\ buckets[j].items # << >>

\* C10: after a confirmed Delete Bucket, an activation whose clipboard reads do
\* not contain an item the bucket held does not show that item as uncategorized.
C10_DeleteBucketIsPermanent ==
  [][\A bucketId \in BucketIds :
       deleteBucket(bucketId, TRUE) =>
         \A t \in Range(buckets[BucketById(buckets, bucketId)].items) :
           \A clip \in Clipboards :
             LET read == readFresh(clip, 0, << >>)
             IN  ~Includes(read, t) =>
                   ~Includes(initUncategorized(read, storedHistory', storedBuckets'), t)]_vars

\* Activations over every stored bucket array, then every move of the main view.
NextSlots ==
  \/ initRead
  \/ initMerge
  \/ \E text \in Texts : toggleSelection(text)
  \/ \E text \in Texts : enterSelectionMode(text)
  \/ \E text \in Texts, bucketId \in BucketIds : moveToExistingBucket(text, bucketId)
  \/ \E text \in Texts, raw \in RawNames : moveToNewBucket(text, raw)
  \/ \E bucketId \in BucketIds : moveBulkToExistingBucket(bucketId)
  \/ \E raw \in RawNames : moveBulkToNewBucket(raw)

SpecSlots == InitLoad /\ [][NextSlots]_vars

\* C11: loadBuckets returns exactly 5 buckets for every persisted value: the 5
\* default buckets when nothing is stored; the stored buckets followed by
\* empty buckets with ids the missing indices when fewer than 5 are stored;
\* the first 5 when more are stored.  init sets `buckets` to that.
C11_LoadBucketsFive ==
  LET empty(k) == [id |-> k - 1, name |-> EmptyString, items |-> << >>]
  IN  /\ Len(loadBuckets) = 5
      /\ ~storedBuckets.present => \A k \in 1 .. 5 : loadBuckets[k] = empty(k)
      /\ storedBuckets.present =>
            \A k \in 1 .. 5 :
              loadBuckets[k] = IF k <= Len(Parse(storedBuckets))
                               THEN Parse(storedBuckets)[k] ELSE empty(k)
      /\ pc = "ready" => buckets = loadBuckets

\* an activation has loaded a stored array of 3 buckets, the last one filled
C11_Witness ==
  /\ pc = "ready"
  /\ storedBuckets.present
  /\ Len(Parse(storedBuckets)) = 3
  /\ buckets[3].items # << >>
  /\ buckets[4].id = 3 /\ buckets[5].id = 4

Declined ==
  \/ \E text \in Texts : deleteEntry(text, FALSE)
  \/ \E bucketId \in BucketIds : deleteBucket(bucketId, FALSE)

\* C12: a Delete Entry or Delete Bucket whose confirmation the user declines
\* changes nothing in memory (buckets, uncategorized list, selection) nor in
\* storage (buckets, history), and issues no notification.
C12_DeclinedDeleteChangesNothing ==
  [][Declined =>
       /\ UNCHANGED << uncategorized, buckets, selectedItems, selectionMode >>
       /\ UNCHANGED << storedHistory, storedBuckets >>
       /\ UNCHANGED << pc, isLoading, viewState >>
       /\ toast' = ""]_vars

\* a delete has just been declined (in SpecDelete nothing else leaves a filled
\* bucket without a toast) with texts in the list, in a bucket and in history
C12_Witness ==
  /\ MainReady /\ toast = ""
  /\ uncategorized # << >>
  /\ loadHistory # << >>
  /\ \E i \in DOMAIN buckets : buckets[i].items # << >>

\* C13: when a bulk move or Paste Selected has finished, the list view it was
\* invoked in (main view or bucket view) is in normal mode, with an empty
\* selection.
C13_BulkActionEndsSelectionMode ==
  toast \in { "Pasted items", "Moved items to" } =>
    IF nav = "main"
    THEN ~selectionMode /\ selectedItems = << >>
    ELSE ~view.selectionMode /\ view.selected = << >>

\* C14: user actions never interleave, each runs to completion with its
\* load-then-save of persisted history before the next is accepted; hence once
\* the single moves that were started have all completed, persisted history
\* holds none of the texts they moved into a bucket (no lost update).
C14_NoLostUpdate ==
  (pc = "ready" /\ pending = << >>) =>
    Range(loadHistory) \cap Bucketed(buckets) = {}

\* the slot with the lowest id among the unnamed slots of `buckets` now has
\* name `name` and holds the selection, in selection order, before those of
\* its old items that are not selected; nothing else moved, and no selected
\* text is left in the uncategorized list
BulkMovedAsClaimed(name) ==
  LET i == CHOOSE k \in DOMAIN buckets :
             /\ buckets[k].name = EmptyString
             /\ \A j \in DOMAIN buckets :
                  buckets[j].name = EmptyString => buckets[k].id <= buckets[j].id
      n == Len(selectedItems)
  IN  /\ Len(buckets') = Len(buckets)
      /\ buckets'[i].id = buckets[i].id
      /\ buckets'[i].name = name
      /\ Len(buckets'[i].items) >= n
      /\ SubSeq(buckets'[i].items, 1, n) = selectedItems
      /\ SubSeq(buckets'[i].items, n + 1, Len(buckets'[i].items))
           = SelectSeq(buckets[i].items, LAMBDA t : t \notin Range(selectedItems))
      /\ \A j \in DOMAIN buckets : j # i => buckets'[j] = buckets[j]
      /\ Range(selectedItems) \cap Range(uncategorized') = {}
      /\ uncategorized' = SelectSeq(uncategorized, LAMBDA t : t \notin Range(selectedItems))

\* C15: a bulk move of the selection to a new bucket named N targets the
\* lowest-id slot whose name is empty, sets its name to N and its items to the
\* selected texts in selection order (then the slot's unselected old items),
\* and removes every selected text from the uncategorized list.
C15_BulkMoveToNewBucket ==
  [][toast' = "Moved items to" =>
       \A raw \in RawNames :
         moveBulkToNewBucket(raw) => BulkMovedAsClaimed(Trim(raw))]_vars

\* a bulk move to a new bucket has just finished, and the bucket in slot 0
\* holds c then a, the order they were selected in (the list shows a first),
\* next to a second named bucket
C15_Witness ==
  /\ toast = "Moved items to"
  /\ buckets[1].name # EmptyString
  /\ buckets[1].items = << << "c" >>, << "a" >> >>
  /\ buckets[2].name # EmptyString

NewBucketMove ==
  \/ \E text \in Texts, raw \in RawNames : moveToNewBucket(text, raw)
  \/ \E raw \in RawNames : moveBulkToNewBucket(raw)

TrimmedEntry(entry) == IF entry.hasText THEN Trim(entry.text) ELSE EmptyString

\* the reads are offsets 0, 1, 2, ... in order, end with the first failing
\* read (offset Len(clipboard)) and are at most 10; fresh holds the non-empty
\* trimmed entries that were read, in order
ScanAsClaimed ==
  LET read == IF Len(clipboard) < 10 THEN Len(clipboard) ELSE 10
  IN  /\ Len(reads) <= 10
      /\ Len(reads) = IF Len(clipboard) < 10 THEN Len(clipboard) + 1 ELSE 10
      /\ \A i \in DOMAIN reads : reads[i] = i - 1
      /\ fresh = SelectSeq([i \in 1 .. read |-> TrimmedEntry(clipboard[i])],
                           LAMBDA t : t # EmptyString)

\* C17: activation reads clipboard offsets 0, 1, 2, ... in order, reads nothing
\* after the first failing read and never more than 10 times, skips entries
\* that are empty after trimming without ending the scan, and, wherever the
\* first failure is (offset 0 included), ends with the merged list persisted
\* and isLoading false.
C17_ScanStopsAndInitTerminates ==
  /\ [](pc = "merge" => ScanAsClaimed)
  /\ [][initMerge =>
          /\ storedHistory' = Stringify(mergeHistory(fresh, loadHistory))
          /\ ~isLoading']_vars
  /\ (pc = "start") ~> (pc = "ready" /\ ~isLoading /\ storedHistory.present)

\* the scan has read 10 entries of a longer clipboard, a blank one and one
\* without text among them, and has kept the other eight
C17_Witness ==
  /\ pc = "merge"
  /\ Len(clipboard) > 10
  /\ reads[Len(reads)] = 9
  /\ clipboard[1] = Entry(<< " " >>)
  /\ clipboard[2] = NoText
  /\ Len(fresh) = 8

\* C18: the selection of a list view is a duplicate-free subset of the items
\* the view displays: of the uncategorized list in the main view, of the
\* view's item list in the bucket view.
C18_SelectionWithinDisplayed ==
  pc = "ready" =>
    /\ NoDuplicates(selectedItems)
    /\ Range(selectedItems) \subseteq Range(uncategorized)
    /\ NoDuplicates(view.selected)
    /\ Range(view.selected) \subseteq Range(view.items)

\* C19: once the operations so far have completed, closing the screen and
\* activating again with an empty clipboard (the first read fails) shows as
\* uncategorized exactly the texts the uncategorized list holds now.
C19_UncategorizedIsDurable ==
  pc = "ready" =>
    Range(initUncategorized(readFresh(<< >>, 0, << >>), storedHistory, storedBuckets))
      = Range(uncategorized)

\* C20: while a bucket view is open, whatever Remove from Bucket and Delete
\* Entry actions were performed in it, the items of its bucket in Command's
\* state and in persisted buckets are the items the view displays.
C20_BucketViewMatchesBucket ==
  (pc = "ready" /\ nav = "bucket") =>
    /\ buckets[BucketById(buckets, view.bucket.id)].items = view.items
    /\ loadBuckets[BucketById(loadBuckets, view.bucket.id)].items = view.items

\* slot bucketId has a new name that is not empty after trimming; its id and
\* items, every other slot, the uncategorized list and persisted history are
\* as they were
RenamedAsClaimed(bucketId) ==
  LET i == BucketById(buckets, bucketId)
  IN  /\ Len(buckets') = Len(buckets)
      /\ Trim(buckets'[i].name) # EmptyString
      /\ buckets'[i].id = buckets[i].id
      /\ buckets'[i].items = buckets[i].items
      /\ \A j \in DOMAIN buckets : j # i => buckets'[j] = buckets[j]
      /\ uncategorized' = uncategorized
      /\ storedHistory' = storedHistory

\* C21: in every state reached from first run, a slot whose name is empty has
\* no items and every name a slot has been given is non-empty after trimming;
\* Rename Bucket changes only the target slot's name and leaves all items,
\* the uncategorized list and persisted history unchanged.
C21_UnnamedSlotsEmptyRenameOnlyName ==
  /\ [](pc = "ready" =>
          \A i \in DOMAIN buckets :
            /\ buckets[i].name = EmptyString => buckets[i].items = << >>
            /\ buckets[i].name # EmptyString => Trim(buckets[i].name) # EmptyString)
  /\ [][toast' = "Renamed to" =>
          \A bucketId \in BucketIds, raw \in RenameNames :
            renameBucket(bucketId, raw) => RenamedAsClaimed(bucketId)]_vars

\* a bucket has just been renamed to x; it and a bucket named w hold items
C21_Witness ==
  /\ toast = "Renamed to"
  /\ \E i, j \in DOMAIN buckets :
       /\ buckets[i].name = << "x" >> /\ buckets[i].items # << >>
       /\ buckets[j].name = << "w" >> /\ buckets[j].items # << >>
====
